---- MODULE Spec2Model ----
(***************************************************************************)
(* Order-book merging service (spread-feed).                               *)
(*                                                                         *)
(* aggregator_task (src/src/aggregator.rs) reads two venue feeds, keeps    *)
(* one Book per venue, merges both with aggerate_levels and sends a        *)
(* Summary on a tokio broadcast channel of capacity 16 created in main     *)
(* (src/src/server.rs); Service::book_summary attaches one receiver per    *)
(* RPC subscriber.  OrderedChain (src/src/iter_utils.rs) is the merging      *)
(* iterator of the repository; aggerate_levels does not call it.           *)
(*                                                                         *)
(* Specifications: Spec (the task alone, any frame at any time), SpecFan   *)
(* (the task and an RPC stream), SpecSelect (the task taking the frames    *)
(* that wait on its two sockets, with the fairness of select!), SpecAgg    *)
(* (one call of aggerate_levels), SpecChain (an OrderedChain pulled to its *)
(* end).                                                                   *)
(*                                                                         *)
(* Numbers.  A Decimal is a record [m, s] (mantissa, scale 0 or 1), so     *)
(* that "1" and "1.0" are different wire values that compare equal, as     *)
(* rust_decimal compares them.  An f64 is represented by the number of     *)
(* tenths it holds; to_f64 is exact on every Decimal of the model.         *)
(***************************************************************************)
EXTENDS Integers, Sequences, FiniteSets, TLC

\* ------------------------------------------------------------------ bounds

\* Most levels of a book-update frame in Spec, bids and asks together.
MaxLevels == 2
\* Summaries sent in Spec before the model lets no further iteration reach the
\* end of the loop body.
MaxSent == 2
\* Levels a side of the long frame of Spec.
MaxDeep == 6
\* Summaries sent in SpecFan (more than the channel holds, so receivers lag).
MaxFanSent == 18
\* Longest venue side given to aggerate_levels in SpecAgg, any quantities.
MaxShort == 2
\* Longest venue side given to aggerate_levels in SpecAgg, unit quantities.
MaxLong == 6
\* Longest input of the OrderedChain of SpecChain.
MaxChain == 2
\* Most frames waiting on the two sockets together in SpecSelect.
MaxPending == 3

\* --------------------------------------------------------- program constants

\* while ret.len() < 10
Depth == 10
\* broadcast::channel(16)
Capacity == 16
\* let (tx, _rx) = ...: main keeps one receiver that never reads
HeldReceivers == 1

\* ------------------------------------------------------------------ decimals

D(m, s) == [m |-> m, s |-> s]

\* The value of a Decimal, in tenths.
DecVal(d) == IF d.s = 0 THEN d.m * 10 ELSE d.m

\* Decimal::cmp: by value, whatever the scale.
DecCmp(a, b) ==
    IF DecVal(a) < DecVal(b) THEN "Less"
    ELSE IF DecVal(a) > DecVal(b) THEN "Greater"
    ELSE "Equal"

\* Ordering::reverse
Reverse(o) ==
    IF o = "Less" THEN "Greater" ELSE IF o = "Greater" THEN "Less" ELSE "Equal"

\* Decimal::to_f64().unwrap(): the f64 nearest to the value (here: exact).
ToF64(d) == DecVal(d)

\* A Level is <<price, quantity>>.
Px(l) == l[1]
Qty(l) == l[2]

\* -------------------------------------------------------------------- sorting

\* The comparator given to the sort of a side: bids by px_b.cmp(px_a)
\* (descending), asks by key px (ascending).
SortCmp(side, a, b) ==
    IF side = "bids" THEN DecCmp(Px(b), Px(a)) ELSE DecCmp(Px(a), Px(b))

\* One insertion of a stable sort: x goes before the first element it is
\* strictly Less than, after every element it ties with.
RECURSIVE InsertStable(_, _, _)
InsertStable(side, s, x) ==
    IF s = <<>> THEN <<x>>
    ELSE IF SortCmp(side, x, Head(s)) = "Less" THEN <<x>> \o s
    ELSE <<Head(s)>> \o InsertStable(side, Tail(s), x)

\* slice::sort_by / sort_by_key: a stable sort.
RECURSIVE SortSide(_, _)
SortSide(side, s) ==
    IF s = <<>> THEN <<>>
    ELSE InsertStable(side, SortSide(side, SubSeq(s, 1, Len(s) - 1)), s[Len(s)])

IsSorted(side, s) ==
    \A i \in 1..(Len(s) - 1) : SortCmp(side, s[i + 1], s[i]) # "Less"

\* ---------------------------------------------------------------- aggregation

SideCmp_noReverse(side, a, b) == DecCmp(a, b)

\* The closure given to aggerate_levels: |a, b| a.cmp(b).reverse() for bids,
\* |a, b| a.cmp(b) for asks.
SideCmp(side, a, b) ==
    IF side = "bids" THEN Reverse(DecCmp(a, b)) ELSE DecCmp(a, b)

MakeLevel_priceTwice(exchange, l) ==
    [exchange |-> exchange, price |-> ToF64(Px(l)), amount |-> ToF64(Px(l))]

\* make_level
MakeLevel(exchange, l) ==
    [exchange |-> exchange, price |-> ToF64(Px(l)), amount |-> ToF64(Qty(l))]

BitstampFirstOnTie_orEqual(bitstamp_qty, binance_qty) ==
    DecCmp(bitstamp_qty, binance_qty) # "Less"

\* The Equal arm: the Bitstamp level goes first when its quantity is larger.
BitstampFirstOnTie(bitstamp_qty, binance_qty) ==
    DecCmp(bitstamp_qty, binance_qty) = "Greater"

Pick_binanceOnTie(side, bs, bn, i, j) ==
    IF i > Len(bs) /\ j > Len(bn) THEN "none"
    ELSE IF j > Len(bn) THEN "bitstamp"
    ELSE IF i > Len(bs) THEN "binance"
    ELSE IF SideCmp(side, Px(bs[i]), Px(bn[j])) = "Less" THEN "bitstamp"
    ELSE "binance"

\* One turn of the while loop of aggerate_levels, with the iterators at bs[i]
\* and bn[j]: which venue's head is pushed ("none" when both are exhausted).
Pick(side, bs, bn, i, j) ==
    IF i > Len(bs) /\ j > Len(bn) THEN "none"
    ELSE IF j > Len(bn) THEN "bitstamp"
    ELSE IF i > Len(bs) THEN "binance"
    ELSE LET c == SideCmp(side, Px(bs[i]), Px(bn[j]))
         IN  IF c = "Less" THEN "bitstamp"
             ELSE IF c = "Greater" THEN "binance"
             ELSE IF BitstampFirstOnTie(Qty(bs[i]), Qty(bn[j]))
                  THEN "bitstamp"
                  ELSE "binance"

RECURSIVE AggLoop_noCap(_, _, _, _, _)
AggLoop_noCap(side, bs, bn, i, j) ==
    LET v == Pick(side, bs, bn, i, j)
    IN  IF v = "none" THEN <<>>
        ELSE IF v = "bitstamp"
             THEN <<MakeLevel("bitstamp", bs[i])>>
                  \o AggLoop_noCap(side, bs, bn, i + 1, j)
             ELSE <<MakeLevel("binance", bn[j])>>
                  \o AggLoop_noCap(side, bs, bn, i, j + 1)

\* The while loop from the turn where i - 1 Bitstamp levels and j - 1 Binance
\* levels have been pushed (ret.len() = i + j - 2): the levels it still pushes.
RECURSIVE AggLoop(_, _, _, _, _)
AggLoop(side, bs, bn, i, j) ==
    IF i + j - 2 >= Depth THEN <<>>
    ELSE LET v == Pick(side, bs, bn, i, j)
         IN  IF v = "none" THEN <<>>
             ELSE IF v = "bitstamp"
                  THEN <<MakeLevel("bitstamp", bs[i])>>
                       \o AggLoop(side, bs, bn, i + 1, j)
                  ELSE <<MakeLevel("binance", bn[j])>>
                       \o AggLoop(side, bs, bn, i, j + 1)

\* aggerate_levels(bitstamp_levels, binance_levels, cmp)
AggerateLevels(side, bitstamp_levels, binance_levels) ==
    AggLoop(side, bitstamp_levels, binance_levels, 1, 1)

\* --------------------------------------------------------------- OrderedChain

\* Ord of the items the chain is used on here: a Level is a tuple (Price, Qty),
\* and tuples compare lexicographically.
ItemCmp(x, y) ==
    IF DecCmp(Px(x), Px(y)) # "Equal" THEN DecCmp(Px(x), Px(y))
    ELSE DecCmp(Qty(x), Qty(y))

\* OrderedChain::new: a and b peekable from their first items (i and j are the
\* places of the items peek() shows); assert_ne!(cmp, Ordering::Equal).
OrderedChainNew(a, b, cmp) ==
    [a |-> a, b |-> b, cmp |-> cmp, i |-> 1, j |-> 1, out |-> <<>>,
     st |-> IF cmp = "Equal" THEN "panicked" ELSE "open"]

ChainSide_swapped(c) ==
    IF c.i <= Len(c.a) /\ c.j <= Len(c.b)
    THEN IF ItemCmp(c.a[c.i], c.b[c.j]) = c.cmp THEN "Right" ELSE "Left"
    ELSE IF c.i <= Len(c.a) THEN "Left"
    ELSE IF c.j <= Len(c.b) THEN "Right"
    ELSE "None"

ChainSide_tieToA(c) ==
    IF c.i <= Len(c.a) /\ c.j <= Len(c.b)
    THEN IF ItemCmp(c.a[c.i], c.b[c.j]) # Reverse(c.cmp) THEN "Left" ELSE "Right"
    ELSE IF c.i <= Len(c.a) THEN "Left"
    ELSE IF c.j <= Len(c.b) THEN "Right"
    ELSE "None"

\* The match of OrderedChain::next on (a.peek(), b.peek()): the input whose
\* head is yielded.
ChainSide(c) ==
    IF c.i <= Len(c.a) /\ c.j <= Len(c.b)
    THEN IF ItemCmp(c.a[c.i], c.b[c.j]) = c.cmp THEN "Left" ELSE "Right"
    ELSE IF c.i <= Len(c.a) THEN "Left"
    ELSE IF c.j <= Len(c.b) THEN "Right"
    ELSE "None"

Either(tag, item) == [tag |-> tag, item |-> item]

\* OrderedChain::next: the chain after the call; what it returned is the item
\* appended to out, or None when st becomes "done".
OrderedChainNext(c) ==
    LET v == ChainSide(c)
    IN  IF v = "Left"
        THEN [c EXCEPT !.i = @ + 1, !.out = Append(@, Either("Left", c.a[c.i]))]
        ELSE IF v = "Right"
        THEN [c EXCEPT !.j = @ + 1, !.out = Append(@, Either("Right", c.b[c.j]))]
        ELSE [c EXCEPT !.st = "done"]

\* No chain was made.
NoChain ==
    [a |-> <<>>, b |-> <<>>, cmp |-> "Less", i |-> 1, j |-> 1, out |-> <<>>,
     st |-> "none"]

\* --------------------------------------------------------------- wire frames

\* What ws.next() yields: Some(Ok(Message::Text(payload))), another Message
\* (Binary, Ping, Pong, Close), Some(Err(e)), or None at the end of the stream.
Text(p) == [type |-> "text", payload |-> p]
Other(t) == [type |-> t, payload |-> [wf |-> FALSE]]
NonTextTypes == {"binary", "ping", "pong", "close"}

\* Payloads, as the JSON documents serde sees: wf is FALSE for a text that is
\* no JSON object of the expected shape.
BitstampJson(event, bids, asks) ==
    [wf |-> TRUE, event |-> event, bids |-> bids, asks |-> asks]
BinanceJson(bids, asks) == [wf |-> TRUE, bids |-> bids, asks |-> asks]
Malformed == [wf |-> FALSE]

DecodeBitstamp_otherIsData(p) ==
    IF ~p.wf THEN "Err"
    ELSE IF p.event = "bts:subscription_succeeded" THEN "SubscriptionSucceeded"
    ELSE IF p.event = "bts:error" THEN "Error"
    ELSE "Data"

\* serde_json::from_str::<bitstamp::FeedMessage>: internally tagged by "event";
\* the variants are bts:subscription_succeeded, bts:error and (rename_all =
\* snake_case) data; any other tag is an unknown variant.
DecodeBitstamp(p) ==
    IF ~p.wf THEN "Err"
    ELSE IF p.event = "bts:subscription_succeeded" THEN "SubscriptionSucceeded"
    ELSE IF p.event = "bts:error" THEN "Error"
    ELSE IF p.event = "data" THEN "Data"
    ELSE "Err"

\* serde_json::from_str::<binance::BookUpdate>
DecodeBinance(p) == IF p.wf THEN "BookUpdate" ELSE "Err"

\* Book::default()
EmptyBook == [bids |-> <<>>, asks |-> <<>>]

UpdatedBook_unsorted(p) == [bids |-> p.bids, asks |-> p.asks]

\* book.bids = data.bids; book.asks = data.asks; then both sides are sorted.
UpdatedBook(p) ==
    [bids |-> SortSide("bids", p.bids), asks |-> SortSide("asks", p.asks)]

\* ------------------------------------------------------------------- state

VARIABLES
    bitstamp_book,  \* aggregator_task: bitstamp_book
    binance_book,   \* aggregator_task: binance_book
    agg,            \* the task: "running", "panicked", "returned" (Err from ?)
    tail,           \* broadcast channel: number of values sent so far
    sent,           \* the value the latest loop iteration gave to tx.send
    last,           \* the latest loop iteration: feed, arm taken, tail before it
    subs,           \* per RPC call: its BroadcastStream
    in_side,        \* a call of aggerate_levels: the side
    in_bitstamp,    \*   its bitstamp_levels
    in_binance,     \*   its binance_levels
    result,         \*   its result
    pc,             \*   "call" before it returns, "done" after
    chain,          \* an OrderedChain and the items pulled from it so far
    feeds           \* the two sockets: the frames that arrived and wait

vars == <<bitstamp_book, binance_book, agg, tail, sent, last, subs,
          in_side, in_bitstamp, in_binance, result, pc, chain, feeds>>

taskVars == <<bitstamp_book, binance_book, agg, tail, sent, last, feeds>>
callVars == <<in_side, in_bitstamp, in_binance, result, pc, chain>>

\* The RPC calls of book_summary the model follows.
Subs == {"s1"}

NoSummary == [some |-> FALSE]

\* Summary { bids, asks, spread }
MakeSummary(bids, asks) ==
    [some |-> TRUE, bids |-> bids, asks |-> asks,
     spread |-> asks[1].price - bids[1].price]

OneSided_bidsOnly(bids, asks) == bids = <<>>

OneSided_orCrossed(bids, asks) ==
    bids = <<>> \/ asks = <<>> \/ asks[1].price < bids[1].price

OneSided_untilBothVenues(bids, asks) ==
    \/ bids = <<>>
    \/ asks = <<>>
    \/ Cardinality({bids[k].exchange : k \in 1..Len(bids)}
                   \cup {asks[k].exchange : k \in 1..Len(asks)}) < 2

\* if bids.is_empty() || asks.is_empty() { continue; }
OneSided(bids, asks) == bids = <<>> \/ asks = <<>>

SendReady_roomForAll ==
    /\ tail < Capacity
    /\ \A s \in Subs : subs[s].st = "open" => tail - subs[s].next < Capacity

\* Sender::send is a plain call, not a future: it never waits for a receiver to
\* make room, it overwrites the oldest slot.
SendReady == TRUE

RxCount_streamsOnly == Cardinality({s \in Subs : subs[s].st = "open"})

\* Receivers alive on the channel: the one main holds, and one per open stream.
RxCount == HeldReceivers + Cardinality({s \in Subs : subs[s].st = "open"})

MergedAsks_fromBids(bs, bn) == AggerateLevels("asks", bs.asks, bn.bids)

MergedBids(bs, bn) == AggerateLevels("bids", bs.bids, bn.bids)
MergedAsks(bs, bn) == AggerateLevels("asks", bs.asks, bn.asks)

\* The end of a loop iteration that did not `continue`: lines 204-216, with the
\* books bs and bn the iteration leaves.  tx.send fails only when no receiver
\* is alive, and `?` then returns the error from the task.
Publish(bs, bn) ==
    \E bids \in {MergedBids(bs, bn)} : \E asks \in {MergedAsks(bs, bn)} :
        IF OneSided(bids, asks)
        THEN /\ agg' = agg /\ tail' = tail /\ sent' = NoSummary
        ELSE IF bids = <<>> \/ asks = <<>>
        THEN \* asks[0] or bids[0] is out of bounds
             /\ agg' = "panicked" /\ tail' = tail /\ sent' = NoSummary
        ELSE IF RxCount = 0
        THEN /\ agg' = "returned" /\ tail' = tail /\ sent' = NoSummary
        ELSE /\ SendReady
             /\ agg' = agg /\ tail' = tail + 1
             /\ sent' = MakeSummary(bids, asks)

\* The sockets of a specification that does not follow the frames on their
\* way: ws.next() may yield any frame at any time.
AnyFrame ==
    [queued |-> FALSE, bitstamp |-> <<>>, binance |-> <<>>,
     taken |-> [bitstamp |-> 0, binance |-> 0]]

SelectReady_biased(venue) ==
    /\ feeds[venue] # <<>>
    /\ venue = "binance" => feeds.bitstamp = <<>>

\* select! with no `biased;`: the branches are polled in an order drawn anew at
\* each call, so the branch of any socket that has a frame may be the one that
\* completes.
SelectReady(venue) == feeds[venue] # <<>>

\* result = <venue>_ws.next() completes with item: the oldest frame waiting on
\* that socket, which leaves the socket (taken counts the frames taken from
\* the venue, modulo 2).
Received(venue, item) ==
    IF feeds.queued
    THEN /\ SelectReady(venue)
         /\ item = Head(feeds[venue])
         /\ feeds' = [feeds EXCEPT ![venue] = Tail(@),
                                   !.taken[venue] = 1 - @]
    ELSE feeds' = feeds

\* What the model remembers of a loop iteration: the feed that was ready, the
\* arm taken, the item received, and the channel's tail when it began.
Iteration(venue, kind, item) ==
    [venue |-> venue, kind |-> kind, item |-> item, pos |-> tail]

\* ------------------------------------------------------- aggregator_task arms

\* Bitstamp: Some(Ok(Message::Text)) decoding to FeedMessage::Data.
BitstampData(item, maxSent) ==
    /\ agg = "running"
    /\ Received("bitstamp", item)
    /\ tail < maxSent
    /\ item.type = "text" /\ DecodeBitstamp(item.payload) = "Data"
    /\ bitstamp_book' = UpdatedBook(item.payload)
    /\ binance_book' = binance_book
    /\ last' = Iteration("bitstamp", "update", item)
    /\ Publish(bitstamp_book', binance_book')
    /\ UNCHANGED <<subs, callVars>>

\* Bitstamp: a text decoding to another variant than Data or Error: continue.
BitstampAdmin(item) ==
    /\ agg = "running"
    /\ Received("bitstamp", item)
    /\ item.type = "text"
    /\ DecodeBitstamp(item.payload) = "SubscriptionSucceeded"
    /\ last' = Iteration("bitstamp", "admin", item)
    /\ sent' = NoSummary
    /\ UNCHANGED <<bitstamp_book, binance_book, agg, tail, subs, callVars>>

\* Bitstamp: FeedMessage::Error, a text that does not parse, Some(Err), None:
\* panic!.
BitstampFatal(item) ==
    /\ agg = "running"
    /\ Received("bitstamp", item)
    /\ \/ item.type = "text" /\ DecodeBitstamp(item.payload) \in {"Error", "Err"}
       \/ item.type \in {"error", "end"}
    /\ agg' = "panicked"
    /\ last' = Iteration("bitstamp", "fatal", item)
    /\ sent' = NoSummary
    /\ UNCHANGED <<bitstamp_book, binance_book, tail, subs, callVars>>

\* Bitstamp: any other Message: the arm `_ => {}` leaves the select! and the
\* iteration goes on to lines 204-216.
BitstampOther(item, maxSent) ==
    /\ agg = "running"
    /\ Received("bitstamp", item)
    /\ tail < maxSent
    /\ item.type \in NonTextTypes
    /\ last' = Iteration("bitstamp", "nontext", item)
    /\ Publish(bitstamp_book, binance_book)
    /\ UNCHANGED <<bitstamp_book, binance_book, subs, callVars>>

\* Binance: Some(Ok(Message::Text)) decoding to a BookUpdate.
BinanceData(item, maxSent) ==
    /\ agg = "running"
    /\ Received("binance", item)
    /\ tail < maxSent
    /\ item.type = "text" /\ DecodeBinance(item.payload) = "BookUpdate"
    /\ binance_book' = UpdatedBook(item.payload)
    /\ bitstamp_book' = bitstamp_book
    /\ last' = Iteration("binance", "update", item)
    /\ Publish(bitstamp_book', binance_book')
    /\ UNCHANGED <<subs, callVars>>

BinanceFatal_continues(item) ==
    /\ agg = "running"
    /\ Received("binance", item)
    /\ \/ item.type = "text" /\ DecodeBinance(item.payload) = "Err"
       \/ item.type \in {"error", "end"}
    /\ last' = Iteration("binance", "fatal", item)
    /\ sent' = NoSummary
    /\ UNCHANGED <<bitstamp_book, binance_book, agg, tail, subs, callVars>>

\* Binance: a text that does not parse, Some(Err), None: panic!.
BinanceFatal(item) ==
    /\ agg = "running"
    /\ Received("binance", item)
    /\ \/ item.type = "text" /\ DecodeBinance(item.payload) = "Err"
       \/ item.type \in {"error", "end"}
    /\ agg' = "panicked"
    /\ last' = Iteration("binance", "fatal", item)
    /\ sent' = NoSummary
    /\ UNCHANGED <<bitstamp_book, binance_book, tail, subs, callVars>>

\* Binance: any other Message: continue.
BinanceOther(item) ==
    /\ agg = "running"
    /\ Received("binance", item)
    /\ item.type \in NonTextTypes
    /\ last' = Iteration("binance", "nontext", item)
    /\ sent' = NoSummary
    /\ UNCHANGED <<bitstamp_book, binance_book, agg, tail, subs, callVars>>

\* ------------------------------------------------------------ book_summary

\* A stream: its receiver's cursor next, the positions in the channel of the
\* Summaries it has yielded (got), and the channel's tail when it was made (from).
NoStream ==
    [st |-> "idle", next |-> 0, lagged |-> FALSE, got |-> <<>>, from |-> 0]

Subscribe_replay(s) ==
    /\ agg = "running"
    /\ subs[s].st = "idle"
    /\ subs' = [subs EXCEPT ![s] = [st |-> "open", next |-> 0,
                                    lagged |-> FALSE, got |-> <<>>,
                                    from |-> tail]]
    /\ UNCHANGED <<taskVars, callVars>>

\* self.tx.subscribe(): the new receiver starts at the channel's tail.
Subscribe(s) ==
    /\ agg = "running"
    /\ subs[s].st = "idle"
    /\ subs' = [subs EXCEPT ![s] = [st |-> "open", next |-> tail,
                                    lagged |-> FALSE, got |-> <<>>,
                                    from |-> tail]]
    /\ UNCHANGED <<taskVars, callVars>>

\* The slot of position next was overwritten: more than Capacity values were
\* sent since.
Lagging(s) == tail - subs[s].next > Capacity

\* stream.next() yields Some(Ok(summary)): the value at the cursor; yield it.
Deliver(s) ==
    /\ agg = "running"
    /\ subs[s].st = "open"
    /\ subs[s].next < tail
    /\ ~Lagging(s)
    /\ subs' = [subs EXCEPT ![s].got = Append(@, subs[s].next),
                            ![s].next = @ + 1]
    /\ UNCHANGED <<taskVars, callVars>>

\* stream.next() yields Some(Err(Lagged(n))) and the receiver skips to the
\* oldest retained value; the pattern Some(Ok(summary)) of the while let does
\* not match, so the loop is over and the stream ends.
RecvLagged(s) ==
    /\ agg = "running"
    /\ subs[s].st = "open"
    /\ Lagging(s)
    /\ subs' = [subs EXCEPT ![s].st = "ended",
                            ![s].lagged = TRUE,
                            ![s].next = tail - Capacity]
    /\ UNCHANGED <<taskVars, callVars>>

\* The client goes away: the stream, and its receiver, are dropped.
Disconnect(s) ==
    /\ agg = "running"
    /\ subs[s].st = "open"
    /\ subs' = [subs EXCEPT ![s].st = "closed"]
    /\ UNCHANGED <<taskVars, callVars>>

\* ------------------------------------------------------------ aggerate_levels

\* One call of aggerate_levels on the inputs of the initial state.
CallAggerate ==
    /\ pc = "call"
    /\ result' = AggerateLevels(in_side, in_bitstamp, in_binance)
    /\ pc' = "done"
    /\ UNCHANGED <<taskVars, subs, in_side, in_bitstamp, in_binance, chain>>

\* A frame from the venue reaches the socket and waits there for ws.next();
\* nothing arrives after the end of the stream.
Arrive(venue, item) ==
    /\ agg = "running"
    /\ feeds.queued
    /\ Len(feeds.bitstamp) + Len(feeds.binance) < MaxPending
    /\ \A k \in 1..Len(feeds[venue]) : feeds[venue][k].type # "end"
    /\ feeds' = [feeds EXCEPT ![venue] = Append(@, item)]
    /\ UNCHANGED <<bitstamp_book, binance_book, agg, tail, sent, last, subs,
                   callVars>>

\* One call of next() on the chain.
ChainNext ==
    /\ chain.st = "open"
    /\ chain' = OrderedChainNext(chain)
    /\ UNCHANGED <<taskVars, subs, in_side, in_bitstamp, in_binance, result, pc>>

\* -------------------------------------------------------------------- inputs

\* The sequences over S of length at most n.
RECURSIVE SeqsUpTo(_, _)
SeqsUpTo(S, n) ==
    IF n = 0 THEN {<<>>}
    ELSE LET shorter == SeqsUpTo(S, n - 1)
         IN  shorter \cup {Append(q, x) : q \in {r \in shorter : Len(r) = n - 1}, x \in S}

One == D(1, 0)

\* Spec: the levels a frame may carry: prices 1 and 2, quantity 1.
FrameLevels == {<<D(1, 0), One>>, <<D(2, 0), One>>}
FrameSides == SeqsUpTo(FrameLevels, MaxLevels)

FatalItems == {Text(Malformed), Other("error"), Other("end")}
OtherItems == {Other("ping"), Other("close")}

BitstampEvents == {"bts:subscription_succeeded", "bts:error", "bts:request_reconnect"}

FrameBooks ==
    {f \in FrameSides \X FrameSides : Len(f[1]) + Len(f[2]) <= MaxLevels}

\* Spec: one long frame per venue, MaxDeep levels a side, so that the two books
\* together hold more than Depth levels.  Bitstamp's prices are even, Binance's
\* odd; Bitstamp's arrays arrive worst price first.
DeepQty == D(5, 1)
BitstampDeep ==
    BitstampJson("data",
                 [i \in 1..MaxDeep |-> <<D(2 * i, 0), DeepQty>>],
                 [i \in 1..MaxDeep |-> <<D(2 * (MaxDeep + 1 - i), 0), DeepQty>>])
BinanceDeep ==
    BinanceJson([i \in 1..MaxDeep |-> <<D(2 * (MaxDeep + 1 - i) - 1, 0), DeepQty>>],
                [i \in 1..MaxDeep |-> <<D(2 * i - 1, 0), DeepQty>>])

\* A frame whose event is none of the three variants and that carries a book.
ReconnectWithBook ==
    BitstampJson("bts:request_reconnect",
                 <<<<D(1, 0), One>>>>, <<<<D(2, 0), One>>>>)

BitstampItems ==
    {Text(BitstampJson("data", f[1], f[2])) : f \in FrameBooks}
    \cup {Text(BitstampDeep)}
    \cup {Text(BitstampJson(e, <<>>, <<>>)) : e \in BitstampEvents}
    \cup {Text(ReconnectWithBook)}
    \cup FatalItems \cup OtherItems

BinanceItems ==
    {Text(BinanceJson(f[1], f[2])) : f \in FrameBooks}
    \cup {Text(BinanceDeep)}
    \cup FatalItems \cup OtherItems

\* SpecFan: a full book, a book with no asks, and one frame for each other arm.
FanBid == <<<<D(1, 0), One>>>>
FanAsk == <<<<D(2, 0), One>>>>

FanBitstampItems ==
    {Text(BitstampJson("data", FanBid, a)) : a \in {<<>>, FanAsk}}
    \cup {Text(BitstampJson("bts:subscription_succeeded", <<>>, <<>>)),
          Other("ping"), Other("end")}

FanBinanceItems ==
    {Text(BinanceJson(FanBid, FanAsk)), Other("ping"), Other("end")}

\* SpecAgg: sides already sorted, as the books of aggregator_task are.
AggPrices == {D(1, 0), D(10, 1), D(2, 0)}
AggQtys == {D(1, 0), D(2, 0)}
ShortSides(side) ==
    {s \in SeqsUpTo(AggPrices \X AggQtys, MaxShort) : IsSorted(side, s)}
LongPrices == {D(1, 0), D(2, 0), D(3, 0)}
LongSides(side) ==
    {s \in SeqsUpTo(LongPrices \X {One}, MaxLong) : IsSorted(side, s)}
AggSides(side) == ShortSides(side) \cup LongSides(side)

\* SpecChain: items that compare equal and differ (1 and 1.0), and items that
\* differ in the quantity only.
ChainItems ==
    {<<D(1, 0), One>>, <<D(10, 1), One>>, <<D(1, 0), D(2, 0)>>, <<D(2, 0), One>>}
ChainInputs == SeqsUpTo(ChainItems, MaxChain)

\* SpecSelect: frames after which nothing is sent (no venue has an ask), so
\* that the run goes on for ever within finitely many states.
SelectBitstampItems ==
    {Text(BitstampJson("data", <<<<D(1, 0), One>>>>, <<>>)),
     Text(BitstampJson("bts:subscription_succeeded", <<>>, <<>>)),
     Other("ping"), Other("end")}
SelectBinanceItems ==
    {Text(BinanceJson(<<<<D(2, 0), One>>>>, <<>>)), Other("ping"), Other("end")}

\* ------------------------------------------------------------ specifications

InitTask ==
    /\ bitstamp_book = EmptyBook
    /\ binance_book = EmptyBook
    /\ agg = "running"
    /\ tail = 0
    /\ sent = NoSummary
    /\ last = [venue |-> "none", kind |-> "none", item |-> Other("none"), pos |-> 0]
    /\ subs = [s \in Subs |-> NoStream]
    /\ feeds = AnyFrame

InitCall ==
    /\ in_side = "bids"
    /\ in_bitstamp = <<>>
    /\ in_binance = <<>>
    /\ result = <<>>
    /\ pc = "done"
    /\ chain = NoChain

Init == InitTask /\ InitCall

\* The aggregator task alone, on every frame of BitstampItems and BinanceItems.
Next ==
    \/ \E item \in BitstampItems : BitstampData(item, MaxSent)
    \/ \E item \in BitstampItems : BitstampAdmin(item)
    \/ \E item \in BitstampItems : BitstampFatal(item)
    \/ \E item \in BitstampItems : BitstampOther(item, MaxSent)
    \/ \E item \in BinanceItems : BinanceData(item, MaxSent)
    \/ \E item \in BinanceItems : BinanceFatal(item)
    \/ \E item \in BinanceItems : BinanceOther(item)

Spec == Init /\ [][Next]_vars

\* The aggregator task and the RPC streams, on a few frames.
NextFan ==
    \/ \E item \in FanBitstampItems : BitstampData(item, MaxFanSent)
    \/ \E item \in FanBitstampItems : BitstampAdmin(item)
    \/ \E item \in FanBitstampItems : BitstampFatal(item)
    \/ \E item \in FanBitstampItems : BitstampOther(item, MaxFanSent)
    \/ \E item \in FanBinanceItems : BinanceData(item, MaxFanSent)
    \/ \E item \in FanBinanceItems : BinanceFatal(item)
    \/ \E item \in FanBinanceItems : BinanceOther(item)
    \/ \E s \in Subs : Subscribe(s)
    \/ \E s \in Subs : Deliver(s)
    \/ \E s \in Subs : RecvLagged(s)
    \/ \E s \in Subs : Disconnect(s)

SpecFan == Init /\ [][NextFan]_vars

\* aggerate_levels as a function of its arguments.
InitAgg ==
    /\ InitTask
    /\ in_side \in {"bids", "asks"}
    /\ in_bitstamp \in AggSides(in_side)
    /\ in_binance \in AggSides(in_side)
    /\ result = <<>>
    /\ pc = "call"
    /\ chain = NoChain

NextAgg == CallAggerate

SpecAgg == InitAgg /\ [][NextAgg]_vars

\* The aggregator task taking the frames that wait on its two sockets.
InitSelect ==
    /\ bitstamp_book = EmptyBook
    /\ binance_book = EmptyBook
    /\ agg = "running"
    /\ tail = 0
    /\ sent = NoSummary
    /\ last = [venue |-> "none", kind |-> "none", item |-> Other("none"), pos |-> 0]
    /\ subs = [s \in Subs |-> NoStream]
    /\ feeds = [AnyFrame EXCEPT !.queued = TRUE]
    /\ InitCall

\* The select! arm of the Bitstamp socket.
BitstampArm ==
    \E item \in SelectBitstampItems :
        \/ BitstampData(item, MaxSent)
        \/ BitstampAdmin(item)
        \/ BitstampFatal(item)
        \/ BitstampOther(item, MaxSent)

\* The select! arm of the Binance socket.
BinanceArm ==
    \E item \in SelectBinanceItems :
        \/ BinanceData(item, MaxSent)
        \/ BinanceFatal(item)
        \/ BinanceOther(item)

NextSelect ==
    \/ \E item \in SelectBitstampItems : Arrive("bitstamp", item)
    \/ \E item \in SelectBinanceItems : Arrive("binance", item)
    \/ BitstampArm
    \/ BinanceArm

\* select! draws the order in which it polls its branches at random each time:
\* a branch that stays ready is not passed over for ever.
SelectFairness == WF_vars(BitstampArm) /\ WF_vars(BinanceArm)

SpecSelect == InitSelect /\ [][NextSelect]_vars /\ SelectFairness

\* An OrderedChain over any two sequences of items, pulled to its end.
InitChain ==
    /\ InitTask
    /\ in_side = "bids" /\ in_bitstamp = <<>> /\ in_binance = <<>>
    /\ result = <<>> /\ pc = "done"
    /\ \E a \in ChainInputs, b \in ChainInputs :
          \E cmp \in {"Less", "Equal", "Greater"} :
              chain = OrderedChainNew(a, b, cmp)

NextChain == ChainNext

SpecChain == InitChain /\ [][NextChain]_vars

\* ===================================================================== claims

Min(a, b) == IF a < b THEN a ELSE b

\* The f64 prices of a sequence of SummaryLevels.
Prices(levels) == [i \in 1..Len(levels) |-> levels[i].price]

NonIncreasing(q) == \A i \in 1..(Len(q) - 1) : q[i] >= q[i + 1]
NonDecreasing(q) == \A i \in 1..(Len(q) - 1) : q[i] <= q[i + 1]

\* Some venue's book has a bid (an ask): the merged side is not empty.
HasBids == bitstamp_book.bids # <<>> \/ binance_book.bids # <<>>
HasAsks == bitstamp_book.asks # <<>> \/ binance_book.asks # <<>>

\* The best prices over both books, as f64.
BidValues ==
    {DecVal(Px(bitstamp_book.bids[i])) : i \in 1..Len(bitstamp_book.bids)}
    \cup {DecVal(Px(binance_book.bids[i])) : i \in 1..Len(binance_book.bids)}
AskValues ==
    {DecVal(Px(bitstamp_book.asks[i])) : i \in 1..Len(bitstamp_book.asks)}
    \cup {DecVal(Px(binance_book.asks[i])) : i \in 1..Len(binance_book.asks)}
BestBid == CHOOSE v \in BidValues : \A w \in BidValues : w <= v
BestAsk == CHOOSE v \in AskValues : \A w \in AskValues : v <= w

\* ---- C1 (SpecAgg)

\* The next Bitstamp level and the next Binance level of the call have the same
\* price.  Every pair of sorted sides is an input, so the heads stand for the
\* iterators at any turn of the loop.
HeadsTie ==
    /\ in_bitstamp # <<>> /\ in_binance # <<>>
    /\ DecVal(Px(in_bitstamp[1])) = DecVal(Px(in_binance[1]))

\* C1, as stated: when the next levels of both venues have the same price,
\* aggerate_levels emits the Binance level first, whatever the quantities.
C1_BinanceFirstOnTie ==
    (pc = "done" /\ HeadsTie) => result[1].exchange = "binance"

\* C1, amended: when the next levels of both venues have the same price,
\* aggerate_levels emits the Bitstamp level first if its quantity is strictly
\* larger than the Binance level's, and the Binance level first otherwise.
C1_LargerQuantityFirstOnTie ==
    (pc = "done" /\ HeadsTie) =>
        LET larger == DecVal(Qty(in_bitstamp[1])) > DecVal(Qty(in_binance[1]))
            first == IF larger THEN in_bitstamp[1] ELSE in_binance[1]
        IN  /\ result[1].exchange = (IF larger THEN "bitstamp" ELSE "binance")
            /\ result[1].price = DecVal(Px(first))
            /\ result[1].amount = DecVal(Qty(first))

\* A tie at the head that Bitstamp wins, the Binance level coming second.
C1_Witness ==
    /\ pc = "done" /\ HeadsTie
    /\ Len(result) >= 2
    /\ result[1].exchange = "bitstamp" /\ result[2].exchange = "binance"
    /\ result[1].price = result[2].price

\* ---- C2 (Spec)

\* C2, as stated: a loop iteration that received a non-text frame or an
\* administrative event, on either feed, leaves both books unchanged and sends
\* no Summary.
C2_OnlyUpdatesPublish ==
    [][(last' # last /\ last'.kind \in {"nontext", "admin"})
         => /\ bitstamp_book' = bitstamp_book
            /\ binance_book' = binance_book
            /\ tail' = tail]_vars

\* ---- C3 (SpecFan)

\* C3, as stated (its safety part): the step in which a stream meets the lagged
\* signal leaves the stream open, so that it goes on delivering Summaries.
C3_LaggedStreamGoesOn ==
    [][\A s \in Subs : (~subs[s].lagged /\ subs'[s].lagged) => subs'[s].st = "open"]_vars

\* ---- C4 (SpecFan)

NoSubscriber == \A s \in Subs : subs[s].st # "open"

\* The latest iteration reached tx.send: it did not `continue` and both merged
\* sides were non-empty.
ReachedSend ==
    /\ \/ last.kind = "update"
       \/ last.kind = "nontext" /\ last.venue = "bitstamp"
    /\ HasBids /\ HasAsks

\* C4: a loop iteration that reaches tx.send while no subscriber's stream is open
\* does not end the task: the send succeeds (the value goes to the channel, where
\* no subscriber will read it) and the task keeps running with its books.
C4_SendWithoutSubscribers ==
    [][(NoSubscriber /\ last' # last /\ ReachedSend')
         => /\ agg' = "running"
            /\ tail' = tail + 1
            /\ UNCHANGED subs]_vars

\* No stream was ever opened, a Summary was sent, and the loop has taken a
\* later frame.
C4_Witness ==
    /\ \A s \in Subs : subs[s].st = "idle"
    /\ agg = "running"
    /\ last.pos >= 1

\* ---- C5 (SpecFan)

\* C5: wherever the receivers' cursors are, a running aggregator can take the
\* next book update and send its Summary (until the model's MaxFanSent): no
\* state has it waiting for room in the channel.
C5_SendNeverWaits ==
    (agg = "running" /\ tail < MaxFanSent)
        => ENABLED (\E item \in FanBinanceItems : BinanceData(item, MaxFanSent))

\* The latest iteration sent a Summary while an open stream was a full channel
\* behind (and the receiver main holds had read nothing).
C5_Witness ==
    /\ agg = "running"
    /\ tail > last.pos
    /\ \E s \in Subs : subs[s].st = "open" /\ tail - subs[s].next > Capacity

\* ---- C6 (Spec)

\* C6: every Summary sent has a bid and an ask; after a book update that leaves
\* the merged bids or the merged asks empty nothing is sent, the task goes on,
\* and the venue's book is the update.
C6_NeverOneSided ==
    /\ sent.some => (sent.bids # <<>> /\ sent.asks # <<>>)
    /\ (last.kind = "update" /\ ~(HasBids /\ HasAsks))
         => /\ ~sent.some
            /\ tail = last.pos
            /\ agg = "running"
            /\ (IF last.venue = "bitstamp" THEN bitstamp_book ELSE binance_book)
                 = UpdatedBook(last.item.payload)

\* After a Summary was sent, an update leaves bids but no asks: nothing is sent.
C6_Witness ==
    /\ last.kind = "update"
    /\ HasBids /\ ~HasAsks
    /\ last.pos >= 1 /\ tail = last.pos

\* ---- C7 (Spec)

\* C7: after a book update that leaves both merged sides non-empty, exactly one
\* Summary is sent, its first bid is the best bid, its first ask the best ask,
\* and its spread is asks[0].price - bids[0].price, negative when the books cross.
C7_CrossedPublished ==
    (last.kind = "update" /\ HasBids /\ HasAsks)
        => /\ agg = "running"
           /\ tail = last.pos + 1
           /\ sent.some
           /\ sent.bids[1].price = BestBid
           /\ sent.asks[1].price = BestAsk
           /\ sent.spread = sent.asks[1].price - sent.bids[1].price
           /\ sent.spread = BestAsk - BestBid

\* Bitstamp's best bid is 2, Binance's best ask is 1: the spread sent is -1.
C7_Witness ==
    /\ last.kind = "update"
    /\ sent.some
    /\ sent.bids[1].exchange = "bitstamp" /\ sent.bids[1].price = ToF64(D(2, 0))
    /\ sent.asks[1].exchange = "binance" /\ sent.asks[1].price = ToF64(D(1, 0))
    /\ sent.spread = 0 - ToF64(D(1, 0))

\* ---- C8 (Spec)

\* C8, as stated: every Summary sent has as many bids as asks, at most 10.
C8_SameLength ==
    sent.some => (Len(sent.bids) = Len(sent.asks) /\ Len(sent.bids) <= Depth)

\* C8, amended: every Summary sent has between 1 and 10 bids and between 1 and
\* 10 asks; the two lengths need not be equal.
C8_LengthsWithinDepth ==
    sent.some => (Len(sent.bids) \in 1..Depth /\ Len(sent.asks) \in 1..Depth)

\* The books hold more than 10 bids and more than 10 asks; 10 of each are sent.
C8_Witness ==
    /\ sent.some
    /\ Len(bitstamp_book.bids) + Len(binance_book.bids) > Depth
    /\ Len(bitstamp_book.asks) + Len(binance_book.asks) > Depth
    /\ Len(sent.bids) = Depth /\ Len(sent.asks) = Depth

\* ---- C9 (SpecAgg)

\* The n best prices of the levels all, as f64, best first.
BestPrices(side, all, n) ==
    LET s == SortSide(side, all) IN [i \in 1..n |-> DecVal(Px(s[i]))]

\* C9: on sorted sides aggerate_levels returns min(10, n_bitstamp + n_binance)
\* levels, and their prices are the best prices of both sides together, best
\* first: no level left out has a better price than a level returned.
C9_DepthCap ==
    pc = "done" =>
        LET n == Min(Depth, Len(in_bitstamp) + Len(in_binance))
        IN  /\ Len(result) = n
            /\ Prices(result) = BestPrices(in_side, in_bitstamp \o in_binance, n)

\* Bids of both venues, more than 10 together; 10 are returned, from both
\* venues, and a level with a lower price is left out.
C9_Witness ==
    /\ pc = "done" /\ in_side = "bids"
    /\ Len(in_bitstamp) + Len(in_binance) > Depth
    /\ Len(result) = Depth
    /\ \E i, j \in 1..Depth :
          result[i].exchange = "bitstamp" /\ result[j].exchange = "binance"
    /\ DecVal(Px(in_bitstamp[Len(in_bitstamp)])) < result[Depth].price

\* ---- C10 (Spec)

\* C10: every Summary sent has its bids in non-increasing price order and its
\* asks in non-decreasing price order, whatever the order of the arrays of the
\* updates.
C10_SummarySorted ==
    sent.some => (NonIncreasing(Prices(sent.bids)) /\ NonDecreasing(Prices(sent.asks)))

\* The latest update's bids arrived out of order and a Summary with two or
\* more bids was sent.
C10_Witness ==
    /\ last.kind = "update"
    /\ ~IsSorted("bids", last.item.payload.bids)
    /\ sent.some
    /\ Len(sent.bids) >= 2

\* ---- C11 (Spec)

\* The levels of a summary side that carry the tag of a venue, in order.
Tagged(levels, venue) == SelectSeq(levels, LAMBDA l : l.exchange = venue)

\* Price and quantity of summary levels, without the tag.
Untag(levels) ==
    [i \in 1..Len(levels) |-> <<levels[i].price, levels[i].amount>>]

\* Price and quantity of the levels of a book side, as f64.
AsF64(book_side) ==
    [i \in 1..Len(book_side) |->
        <<DecVal(Px(book_side[i])), DecVal(Qty(book_side[i]))>>]

IsPrefix(p, q) == Len(p) <= Len(q) /\ p = SubSeq(q, 1, Len(p))

\* Every level of the side has one of the two tags, the levels tagged bitstamp
\* are a prefix of the Bitstamp book side and the levels tagged binance a prefix
\* of the Binance book side, with their prices and quantities.
TagsMatchOrigin(levels, bitstamp_side, binance_side) ==
    /\ \A i \in 1..Len(levels) : levels[i].exchange \in {"bitstamp", "binance"}
    /\ IsPrefix(Untag(Tagged(levels, "bitstamp")), AsF64(bitstamp_side))
    /\ IsPrefix(Untag(Tagged(levels, "binance")), AsF64(binance_side))

\* C11: in every Summary sent, each side's levels tagged "bitstamp" are, in
\* order and with their price and quantity, a prefix of that side of the
\* Bitstamp book, and the levels tagged "binance" a prefix of that side of the
\* Binance book; there is no other level, so none is duplicated, invented or
\* merged with the other venue's level at the same price.
C11_TagsMatchOrigin ==
    sent.some =>
        /\ TagsMatchOrigin(sent.bids, bitstamp_book.bids, binance_book.bids)
        /\ TagsMatchOrigin(sent.asks, bitstamp_book.asks, binance_book.asks)

\* Both venues bid the same price: the Summary sent has both levels, each with
\* its tag.
C11_Witness ==
    /\ sent.some
    /\ Len(sent.bids) >= 2
    /\ sent.bids[1].price = sent.bids[2].price
    /\ sent.bids[1].exchange # sent.bids[2].exchange

\* ---- C12 (Spec)

\* How many times x occurs in the sequence q.
Count(q, x) == Cardinality({i \in 1..Len(q) : q[i] = x})

\* The sequences a and b hold the same elements, each as many times.
SameElements(a, b) ==
    /\ Len(a) = Len(b)
    /\ \A i \in 1..Len(a) : Count(a, a[i]) = Count(b, a[i])

\* The book is the snapshot of the payload, whole: on each side the same levels
\* as the payload's array, and nothing else, in the book's order.
IsSnapshot(book, payload) ==
    /\ SameElements(book.bids, payload.bids) /\ IsSorted("bids", book.bids)
    /\ SameElements(book.asks, payload.asks) /\ IsSorted("asks", book.asks)

\* The side of a Summary is made of the books' sides bs and bn and of nothing
\* else: its levels are theirs, as many as the cap allows, best price first.
SideComputedFrom(side, levels, bs, bn) ==
    /\ TagsMatchOrigin(levels, bs, bn)
    /\ Len(levels) = Min(Depth, Len(bs) + Len(bn))
    /\ Prices(levels) = BestPrices(side, bs \o bn, Len(levels))

\* C12: the books start empty; a loop iteration that takes a book update of one
\* venue makes that venue's book the update's snapshot, both sides whole, and
\* leaves the other venue's book as it was; any other iteration leaves both
\* books as they were; and the Summary an iteration sends is made of the two
\* books as that iteration leaves them, so of the latest snapshot of each
\* venue and of no level of an earlier one.
C12_LatestSnapshots ==
    /\ (bitstamp_book = EmptyBook /\ binance_book = EmptyBook)
    /\ [](sent.some =>
            /\ SideComputedFrom("bids", sent.bids,
                                bitstamp_book.bids, binance_book.bids)
            /\ SideComputedFrom("asks", sent.asks,
                                bitstamp_book.asks, binance_book.asks))
    /\ [][last' # last =>
           /\ tail' # tail => sent'.some
           /\ IF last'.kind = "update" /\ last'.venue = "bitstamp"
              THEN /\ IsSnapshot(bitstamp_book', last'.item.payload)
                   /\ binance_book' = binance_book
              ELSE IF last'.kind = "update" /\ last'.venue = "binance"
              THEN /\ IsSnapshot(binance_book', last'.item.payload)
                   /\ bitstamp_book' = bitstamp_book
              ELSE /\ bitstamp_book' = bitstamp_book
                   /\ binance_book' = binance_book]_vars

\* The second Summary follows a Binance update that left the Binance book with
\* no bid: its bids are all Bitstamp's, from the book Bitstamp set earlier, and
\* its asks include Binance's new ones.
C12_Witness ==
    /\ last.kind = "update" /\ last.venue = "binance"
    /\ last.pos = 1 /\ tail = 2
    /\ binance_book.bids = <<>> /\ binance_book.asks # <<>>
    /\ bitstamp_book.bids # <<>>
    /\ sent.some
    /\ Tagged(sent.bids, "binance") = <<>>
    /\ Tagged(sent.asks, "binance") # <<>>

\* ---- C13 (Spec)

\* The item a feed yields is one of: a socket error, the end of the stream, a
\* text that does not decode, Bitstamp's bts:error event.
FatalEvent(venue, item) ==
    \/ item.type \in {"error", "end"}
    \/ /\ item.type = "text"
       /\ IF venue = "bitstamp"
          THEN DecodeBitstamp(item.payload) \in {"Err", "Error"}
          ELSE DecodeBinance(item.payload) = "Err"

\* C13: a loop iteration that receives, on either feed, a socket error, the end
\* of the stream, a text that does not decode or Bitstamp's bts:error ends the
\* task, with both books as they were and nothing sent; and once the task has
\* ended it takes no further step: no book changes and no Summary is sent.
C13_FatalEventsTerminate ==
    /\ [](agg # "running" => ~ENABLED <<Next>>_vars)
    /\ [][/\ (last' # last /\ FatalEvent(last'.venue, last'.item))
              => (/\ agg' = "panicked"
                  /\ bitstamp_book' = bitstamp_book
                  /\ binance_book' = binance_book
                  /\ tail' = tail
                  /\ ~sent'.some)
          /\ (agg # "running")
              => (/\ tail' = tail
                  /\ bitstamp_book' = bitstamp_book
                  /\ binance_book' = binance_book)]_vars

\* After a Summary was sent, Binance's stream ended: the task is over, the books
\* still hold their levels.
C13_Witness ==
    /\ agg = "panicked"
    /\ last.kind = "fatal" /\ last.venue = "binance" /\ last.item.type = "end"
    /\ last.pos >= 1 /\ tail = last.pos
    /\ HasBids /\ HasAsks

\* ---- C14 (Spec)

\* The latest iteration took a Bitstamp text frame that is a JSON document of
\* the feed's shape and whose event is neither bts:subscription_succeeded nor
\* bts:error.
OtherBitstampEvent(it) ==
    /\ it.venue = "bitstamp"
    /\ it.item.type = "text"
    /\ it.item.payload.wf
    /\ it.item.payload.event \notin {"bts:subscription_succeeded", "bts:error"}

\* C14, as stated: a Bitstamp text frame whose event is neither
\* bts:subscription_succeeded nor bts:error is taken as a book update: the
\* Bitstamp book becomes the frame's bids and asks.
C14_OtherEventsAreUpdates ==
    [][(last' # last /\ OtherBitstampEvent(last'))
         => /\ last'.kind = "update"
            /\ agg' = "running"
            /\ IsSnapshot(bitstamp_book', last'.item.payload)]_vars

\* C14, amended: a Bitstamp text frame is taken as a book update, the Bitstamp
\* book becoming its bids and asks, when its event is data; a frame whose event
\* is none of data, bts:subscription_succeeded and bts:error does not decode:
\* the task ends and the Bitstamp book is left as it was.
C14_OnlyDataIsUpdate ==
    [][(last' # last /\ OtherBitstampEvent(last'))
         => IF last'.item.payload.event = "data"
            THEN /\ last'.kind = "update"
                 /\ agg' = "running"
                 /\ IsSnapshot(bitstamp_book', last'.item.payload)
            ELSE /\ last'.kind = "fatal"
                 /\ agg' = "panicked"
                 /\ bitstamp_book' = bitstamp_book
                 /\ tail' = tail]_vars

\* A bts:request_reconnect frame that carries bids and asks ended the task; the
\* Bitstamp book is not the frame's.
C14_Witness ==
    /\ agg = "panicked"
    /\ last.venue = "bitstamp"
    /\ last.item = Text(ReconnectWithBook)
    /\ ~IsSnapshot(bitstamp_book, last.item.payload)

\* ---- C15 (SpecChain)

\* The items pulled from the chain, without their tags.
Items(out) == [k \in 1..Len(out) |-> out[k].item]

\* The items pulled with the tag, in the order pulled.
ItemsTagged(out, tag) == Items(SelectSeq(out, LAMBDA e : e.tag = tag))

\* q is sorted for the direction cmp: ascending for Less, descending for
\* Greater (equal neighbours allowed).
ChainSorted(q, cmp) ==
    \A k \in 1..(Len(q) - 1) : ItemCmp(q[k], q[k + 1]) # Reverse(cmp)

\* C15: an OrderedChain pulled until next() returns None has yielded every item
\* of A tagged Left and every item of B tagged Right, each once and in its
\* input's order, and no other item; when A and B are both sorted ascending and
\* the direction is Less, or both descending and the direction Greater, the
\* items come out sorted the same way.  None is returned only when both inputs
\* are exhausted.
C15_ChainMerges ==
    /\ chain.st = "open" => Len(chain.out) = (chain.i - 1) + (chain.j - 1)
    /\ chain.st = "done" =>
          /\ chain.i = Len(chain.a) + 1 /\ chain.j = Len(chain.b) + 1
          /\ Len(chain.out) = Len(chain.a) + Len(chain.b)
          /\ SameElements(Items(chain.out), chain.a \o chain.b)
          /\ ItemsTagged(chain.out, "Left") = chain.a
          /\ ItemsTagged(chain.out, "Right") = chain.b
          /\ (ChainSorted(chain.a, chain.cmp) /\ ChainSorted(chain.b, chain.cmp))
                => ChainSorted(Items(chain.out), chain.cmp)

\* Two descending inputs of two items each, merged with Greater: the items came
\* out alternating between the inputs.
C15_Witness ==
    /\ chain.st = "done" /\ chain.cmp = "Greater"
    /\ Len(chain.a) = 2 /\ Len(chain.b) = 2
    /\ ChainSorted(chain.a, "Greater") /\ ChainSorted(chain.b, "Greater")
    /\ chain.a[1] # chain.a[2]
    /\ chain.out[1].tag = "Left" /\ chain.out[2].tag = "Right"
    /\ chain.out[3].tag = "Left" /\ chain.out[4].tag = "Right"

\* ---- C16 (SpecChain)

BothHeads(c) == c.i <= Len(c.a) /\ c.j <= Len(c.b)

\* C16: a call of next() made while both inputs have a head yields the head of
\* A tagged Left, advancing A alone, when A's head compares to B's head as the
\* direction says (strictly); otherwise, and so when the heads compare equal,
\* it yields the head of B tagged Right and A is not advanced.
C16_TiesConsumeB ==
    [][(chain' # chain /\ BothHeads(chain)) =>
          IF ItemCmp(chain.a[chain.i], chain.b[chain.j]) = chain.cmp
          THEN /\ chain'.out = Append(chain.out, Either("Left", chain.a[chain.i]))
               /\ chain'.i = chain.i + 1 /\ chain'.j = chain.j
          ELSE /\ chain'.out = Append(chain.out, Either("Right", chain.b[chain.j]))
               /\ chain'.j = chain.j + 1 /\ chain'.i = chain.i]_vars

\* The latest item pulled is B's 1.0, while A's head is 1: the two compare
\* equal and A's is still to come.
C16_Witness ==
    /\ chain.st = "open"
    /\ chain.out # <<>>
    /\ chain.out[Len(chain.out)] = Either("Right", <<D(10, 1), One>>)
    /\ chain.i <= Len(chain.a)
    /\ chain.a[chain.i] = <<D(1, 0), One>>

\* ---- C17 (SpecAgg)

\* The items of a chain pulled until next() returns None.
RECURSIVE PullAll(_)
PullAll(c) == IF c.st # "open" THEN c.out ELSE PullAll(OrderedChainNext(c))

\* The first n elements of q.
Take(q, n) == SubSeq(q, 1, Min(n, Len(q)))

\* The SummaryLevel of a tagged item: Left is Bitstamp's, Right is Binance's.
AsSummaryLevel(e) ==
    [exchange |-> IF e.tag = "Left" THEN "bitstamp" ELSE "binance",
     price |-> DecVal(Px(e.item)), amount |-> DecVal(Qty(e.item))]

\* Best price first: descending for bids, ascending for asks.
Direction(side) == IF side = "bids" THEN "Greater" ELSE "Less"

\* The first 10 items of OrderedChain(bitstamp, binance, direction), as
\* SummaryLevels.
ViaOrderedChain(side, bitstamp_levels, binance_levels) ==
    LET out == Take(PullAll(OrderedChainNew(bitstamp_levels, binance_levels,
                                            Direction(side))), Depth)
    IN  [k \in 1..Len(out) |-> AsSummaryLevel(out[k])]

\* C17, as stated: on sorted venue sides and for both directions,
\* aggerate_levels returns the first 10 items of the OrderedChain of the two
\* sides, Left tagged "bitstamp" and Right tagged "binance".
C17_RefinesOrderedChain ==
    pc = "done" => result = ViaOrderedChain(in_side, in_bitstamp, in_binance)

\* Some Bitstamp level and some Binance level have the same price and
\* different quantities.
TiedPriceOtherQuantity(bs, bn) ==
    \E i \in 1..Len(bs) : \E j \in 1..Len(bn) :
        /\ DecVal(Px(bs[i])) = DecVal(Px(bn[j]))
        /\ DecVal(Qty(bs[i])) # DecVal(Qty(bn[j]))

\* C17, amended: aggerate_levels returns the first 10 items of the OrderedChain
\* of the two sides (levels compared as pairs of price and quantity) for bids
\* on all sorted sides, and for asks on the sorted sides where no Bitstamp
\* level has the price of a Binance level and another quantity.
C17_RefinesUnlessAskTie ==
    (pc = "done"
        /\ (in_side = "bids" \/ ~TiedPriceOtherQuantity(in_bitstamp, in_binance)))
      => result = ViaOrderedChain(in_side, in_bitstamp, in_binance)

\* Bids whose heads have the same price, Bitstamp's with the larger quantity:
\* Bitstamp's level comes first both ways, Binance's second.
C17_Witness ==
    /\ pc = "done" /\ in_side = "bids" /\ HeadsTie
    /\ DecVal(Qty(in_bitstamp[1])) > DecVal(Qty(in_binance[1]))
    /\ result[1].exchange = "bitstamp"
    /\ result = ViaOrderedChain(in_side, in_bitstamp, in_binance)

\* ---- C18 (SpecSelect)

Venues == {"bitstamp", "binance"}

\* C18: while the task runs, a frame waiting on a socket is taken by the loop
\* after finitely many iterations, however many frames the other socket has
\* and goes on receiving; and the loop takes the frames of a socket oldest
\* first, one at a time.
C18_NeitherFeedStarves ==
    /\ \A v \in Venues : \A n \in {0, 1} :
          (feeds[v] # <<>> /\ feeds.taken[v] = n)
              ~> (feeds.taken[v] # n \/ agg # "running")
    /\ [][\A v \in Venues :
            (feeds'.taken[v] # feeds.taken[v] \/ Len(feeds'[v]) < Len(feeds[v]))
                => /\ feeds[v] # <<>>
                   /\ feeds'[v] = Tail(feeds[v])
                   /\ last'.venue = v
                   /\ last'.item = Head(feeds[v])]_vars

\* A Bitstamp frame was taken while two Binance frames were waiting, and
\* another Bitstamp frame waits.
C18_Witness ==
    /\ agg = "running"
    /\ last.venue = "bitstamp"
    /\ feeds.taken["bitstamp"] = 1
    /\ Len(feeds.binance) = 2
    /\ Len(feeds.bitstamp) = 1

\* ---- C19 (SpecFan)

\* C19: the Summaries a stream has yielded are, by their positions in the
\* channel, Summaries that were sent, none of them sent before the stream
\* subscribed, in the order they were sent and each at most once; and a stream
\* only ever adds to what it has yielded.
C19_OrderedSinceSubscription ==
    /\ [](\A s \in Subs :
            LET got == subs[s].got
            IN  /\ \A k \in 1..Len(got) : subs[s].from <= got[k] /\ got[k] < tail
                /\ \A k \in 1..(Len(got) - 1) : got[k] < got[k + 1])
    /\ [][\A s \in Subs :
            subs[s].st # "idle" =>
                /\ subs'[s].from = subs[s].from
                /\ IsPrefix(subs[s].got, subs'[s].got)]_vars

\* A stream that subscribed after the first Summary was sent has yielded two
\* Summaries, and more were sent since.
C19_Witness ==
    \E s \in Subs :
        /\ subs[s].from >= 1
        /\ Len(subs[s].got) >= 2
        /\ subs[s].got[1] = subs[s].from
        /\ tail > subs[s].next

\* ---- C20 (Spec)

BookOf(v) == IF v = "bitstamp" THEN bitstamp_book ELSE binance_book
OtherVenue(v) == IF v = "bitstamp" THEN "binance" ELSE "bitstamp"

\* C20: after a book update of one venue that has a bid and an ask, taken while
\* the other venue's book is empty (so also the first update of all, from two
\* empty books), a Summary is sent, and all its levels carry the tag of the
\* venue of the update.
C20_SingleVenuePublishes ==
    \A v \in Venues :
        (/\ last.kind = "update" /\ last.venue = v
         /\ BookOf(v).bids # <<>> /\ BookOf(v).asks # <<>>
         /\ BookOf(OtherVenue(v)) = EmptyBook)
          => /\ sent.some
             /\ tail = last.pos + 1
             /\ agg = "running"
             /\ \A k \in 1..Len(sent.bids) : sent.bids[k].exchange = v
             /\ \A k \in 1..Len(sent.asks) : sent.asks[k].exchange = v

\* The first Summary of the run, sent after a Bitstamp update, while the
\* Binance book is empty.
C20_Witness ==
    /\ last.kind = "update" /\ last.venue = "bitstamp"
    /\ last.pos = 0 /\ tail = 1
    /\ binance_book = EmptyBook
    /\ sent.some
    /\ sent.bids[1].exchange = "bitstamp" /\ sent.asks[1].exchange = "bitstamp"

====
